---- MODULE Spec2Model ----
(***************************************************************************)
(* A model of the command-line assistant: the interaction loop of          *)
(* index.ts (processUserInput / main), the ConversationService message     *)
(* store, the MCPService server registry, and the three-node agent graph   *)
(* (userInput -> model -> toolUse -> model ... -> END).                    *)
(*                                                                         *)
(* The agent graph (src/agent/graph.ts, nodes.ts, edges.ts, state.ts) and  *)
(* claude.service.ts are not among the source files; they are modelled     *)
(* from their description in the blueprint (src/unnamed/part_001) and in   *)
(* spec.md section 4.1.                                                    *)
(*                                                                         *)
(* Seven next-state relations share the variables:                         *)
(*   Spec       main()'s interaction loop with the graph runs;             *)
(*   LongSessionSpec  the same loop later in a session, the table already  *)
(*              holding the messages of earlier turns, with a generator    *)
(*              that may end a turn without text;                          *)
(*   RunTurnSpec  one turn of such a session from graph.invoke on, the     *)
(*              generator asking for tools as often as the graph runtime   *)
(*              lets it, under the fairness of a running turn;             *)
(*   StoreSpec  the methods of ConversationService called in any order on  *)
(*              several conversations, failing calls included;             *)
(*   McpSpec    main() connecting and disconnecting the servers of         *)
(*              MCPService, each server connected once, and the SIGINT /   *)
(*              SIGTERM handlers, run once per arrival, beside it          *)
(*              (McpFairSpec adds the fairness of the close races);        *)
(*   McpToolsSpec  the same, main() also listing the servers' tools;       *)
(*   RegistrySpec  the methods of MCPService called in any order by one    *)
(*              caller, servers connected repeatedly, tools routed and     *)
(*              called, transports closing at any time.                    *)
(***************************************************************************)
EXTENDS Integers, Sequences, FiniteSets

\* ---------------------------------------------------------------- bounds
\* Agent turns (user messages sent to the graph) per session.
MaxTurns == 2
\* Tool rounds the generator asks for within one turn before it answers.
MaxRounds == 1
\* Capability calls in one CapabilityRequest.
MaxCalls == 2
\* Call ids the generator hands out in one session (1..MaxIds).
MaxIds == 2
\* Message rows in the table, in the runs of the store's operations.
MaxRows == 3
\* Conversations created, in the runs of the store's operations.
MaxConversations == 2
\* The limits getConversationMessages is called with: 1..MaxLimit.
MaxLimit == 2
\* What saveToolExecution and updateState have written, or are about to
\* write, before the next such call is made: ToolExecution rows,
\* StateCheckpoint rows, updated states.
MaxRecords == 1
\* Successful connectServer calls per server name, in the runs of MCPService.
MaxConnections == 2
\* Turns the session has been through before the runs that start later in
\* a session.
EarlierTurnCount == 2
\* Signals (SIGINT or SIGTERM) that arrive while MCPService is in use.
MaxSignals == 2
\* Signals (SIGINT or SIGTERM) that arrive during a session of main().
MaxSessionSignals == 1
\* Transports of rejected connects that are open at the same time.
MaxFailedConnects == 1

\* ------------------------------------------------------ program constants
\* processUserInput loads the last 10 persisted messages.
HistoryLimit == 10
\* graph.invoke(initialState) is called without a config, so the graph
\* runtime stops the run at its default recursion limit: 25 supersteps.
RecursionLimit == 25

\* Servers main() connects, in this order.  GITHUB_TOKEN and BRAVE_API_KEY
\* are unset in the modelled environment, so main() skips those two servers.
ServerNames == <<"filesystem">>

\* main() calls connectServer once for each server name.
StartupConnections == 1

\* The tools the generator may name, and the server each is routed to.
ToolNames == {"list_files"}

ServerOf(tool) == IF tool = "list_files" THEN "filesystem" ELSE "github"

\* What the user may type at the prompt.
UserInputs == {"hi", "/exit", "/EXIT", "/help", "/Tools"}

\* Texts the generator may answer with.
AnswerTexts == {"Hello!"}

Placeholder == "I processed your request but have no response to show."

VARIABLES
  pc,               \* the await main() is at: boot, startup, listing, creating,
                    \* prompt, loading, a graph node, end, cleanup; exited once it returned
  startIdx,         \* startup: index of the server main() connects or lists
  servers,          \* MCPService.servers: names registered with a client
  connectedServers, \* MCPService.connectedServers
  db,               \* the conversation's Message rows, in insertion order
  clock,            \* creation time the next insert statement stamps
  nextId,           \* next call id the generator hands out
  turns,            \* agent turns started so far
  messages,         \* graph state: state.messages
  shouldContinue,   \* graph state: state.shouldContinue
  results,          \* toolUseNode: result per pending call ("pending" until executed)
  invoked,          \* the messages the graph was invoked with this turn
  produced,         \* the messages the graph's nodes returned this turn, in order
  dbBase,           \* Len(db) when the graph was invoked this turn
  outcome,          \* what the latest generateResponse call came back with
  genInput,         \* argument of the latest generateResponse call of the turn
  genCalls,         \* generateResponse calls made this turn
  gatewayCalls,     \* mcpService.callTool calls made this turn
  rounds,           \* tool rounds completed or running this turn
  display,          \* what the CLI displayed last
  io,               \* the latest line read at the prompt and what processUserInput returned
  conversations,    \* the Conversation rows, in creation order
  toolExecutions,   \* the ToolExecution rows
  stateCheckpoints, \* the StateCheckpoint rows
  ret,              \* the service call seen to return in the latest step: its
                    \* arguments and what it returned (NoReturn: none was)
  toolsCache,       \* MCPService.servers: the tools field of each server, {} when undefined
  inflight,         \* service calls that are waiting (for a client, for a statement)
  handling,         \* the runs of the signal handlers that have started
  connections,      \* per name: the connectServer calls that have succeeded
  transports,       \* the transports that are open (also those of connects that
                    \* were rejected), each with its onclose callback
  registryOrder,    \* MCPService.servers: its keys in insertion order
  processExit       \* "running", or the exit the process made

vars == <<pc, startIdx, servers, connectedServers, db, clock, nextId, turns,
          messages, shouldContinue, results, invoked, produced, dbBase,
          outcome, genInput, genCalls, gatewayCalls, rounds, display,
          io, conversations, toolExecutions, stateCheckpoints, ret,
          toolsCache, inflight, handling, connections, transports,
          registryOrder, processExit>>

mcpVars == <<servers, connectedServers>>
turnVars == <<messages, shouldContinue, results, invoked, produced, dbBase,
              outcome, genInput, genCalls, gatewayCalls, rounds>>
\* What the steps of the interaction loop and of the graph's nodes leave
\* alone: the store's other tables, and in MCPService the tools fields, the
\* calls and handlers in progress, the transports and the order of the
\* registry's keys.
auxVars == <<toolExecutions, stateCheckpoints, toolsCache, inflight, handling,
             connections, transports, registryOrder>>

\* ------------------------------------------------------------- messages
\* LangChain messages.  tool_call_id 0 and name "" stand for undefined.
HumanMessage(text) ==
  [type |-> "human", content |-> text, tool_calls |-> <<>>,
   tool_call_id |-> 0, name |-> ""]

AIMessage(text, calls) ==
  [type |-> "ai", content |-> text, tool_calls |-> calls,
   tool_call_id |-> 0, name |-> ""]

ToolMessage(text, id, toolName) ==
  [type |-> "tool", content |-> text, tool_calls |-> <<>>,
   tool_call_id |-> id, name |-> toolName]

\* ---------------------------------------------------- ConversationService
\* Mutant: no ToolMessage branch, tool messages fall to the default.
MapMessageRoleNoTool(message) ==
  IF message.type = "human" THEN "USER"
  ELSE IF message.type = "ai" THEN "ASSISTANT"
  ELSE "USER"

MapMessageRole(message) ==
  IF message.type = "human" THEN "USER"
  ELSE IF message.type = "ai" THEN "ASSISTANT"
  ELSE IF message.type = "tool" THEN "TOOL"
  ELSE "USER"

\* A message content that is not a string: the array ["a.txt"].  Contents
\* are written as strings throughout; this one name stands for the array
\* value, every other content is the text it spells.
StructuredContent == "array:a.txt"

TypeofString(content) == content # StructuredContent

\* JSON.stringify of a content that is not a string.
JSONStringify(content) ==
  IF content = StructuredContent THEN "[\"a.txt\"]" ELSE content

\* saveMessages: the text stored in the content column.
StoredContent(content) ==
  IF TypeofString(content) THEN content ELSE JSONStringify(content)

\* One row of messageData, stamped by the insert statement with time t.
MessageRow(conversationId, message, t) ==
  [conversationId |-> conversationId,
   role |-> MapMessageRole(message),
   content |-> StoredContent(message.content),
   metadata |->
     [tool_calls |-> IF message.type = "ai" THEN message.tool_calls ELSE <<>>,
      tool_call_id |-> IF message.type = "tool" THEN message.tool_call_id ELSE 0,
      name |-> IF message.type = "tool" THEN message.name ELSE ""],
   createdAt |-> t]

\* The rows createMany inserts for a batch: one per message, in the batch's
\* order, all stamped by the one statement.
MessageData(conversationId, batch, t) ==
  [i \in 1..Len(batch) |-> MessageRow(conversationId, batch[i], t)]

\* Mutant: create() of the first message instead of createMany().
SaveMessagesFirstOnly(table, conversationId, batch, t) ==
  table \o <<MessageRow(conversationId, batch[1], t)>>

\* Mutant: the batch replaces the rows that were there.
SaveMessagesReplacing(table, conversationId, batch, t) ==
  MessageData(conversationId, batch, t)

\* saveMessages: the table after the batch is inserted.
SaveMessages(table, conversationId, batch, t) ==
  table \o MessageData(conversationId, batch, t)

\* The LangChain message getConversationMessages builds from a row.
RowMessage(row) ==
  IF row.role = "USER" THEN HumanMessage(row.content)
  ELSE IF row.role = "ASSISTANT" THEN AIMessage(row.content, row.metadata.tool_calls)
  ELSE IF row.role = "TOOL"
    THEN ToolMessage(row.content, row.metadata.tool_call_id, row.metadata.name)
  ELSE HumanMessage(row.content)

Min(a, b) == IF a <= b THEN a ELSE b

Range(f) == {f[i] : i \in DOMAIN f}

\* The sequences of k distinct elements of S, in every order.
RECURSIVE Arrangements(_, _)
Arrangements(S, k) ==
  IF k = 0 \/ S = {} THEN {<<>>}
  ELSE UNION {{<<x>> \o r : r \in Arrangements(S \ {x}, k - 1)} : x \in S}

\* The newest rows among the rows idx of the table.
Newest(table, idx) ==
  {j \in idx : \A i \in idx : table[i].createdAt <= table[j].createdAt}

\* orderBy createdAt desc, take k, over the rows idx: every sequence of row
\* indices the database may answer with.  Rows of equal createdAt come in an
\* order the database chooses.
RECURSIVE OrderByDescTake(_, _, _)
OrderByDescTake(table, idx, k) ==
  IF k = 0 \/ idx = {} THEN {<<>>}
  ELSE LET top == Newest(table, idx)
           c == Cardinality(top)
       IN IF c <= k
            THEN {p \o r : p \in Arrangements(top, c),
                           r \in OrderByDescTake(table, idx \ top, k - c)}
            ELSE Arrangements(top, k)

\* where: { conversationId }: the rows of the conversation.
WhereConversation(table, conversationId) ==
  {i \in DOMAIN table : table[i].conversationId = conversationId}

\* findMany(where conversationId, orderBy createdAt desc, take limit).
FindManyDesc(table, conversationId, limit) ==
  OrderByDescTake(table, WhereConversation(table, conversationId), limit)

\* Mutant: the rows stay newest first.
ReverseNot(s) == s

Reverse(s) == [i \in 1..Len(s) |-> s[Len(s) + 1 - i]]

\* messages.reverse(): the rows getConversationMessages maps, as indices
\* into the table; every sequence the query may give.
RecentRows(table, conversationId, limit) ==
  {Reverse(p) : p \in FindManyDesc(table, conversationId, limit)}

\* messages.map(...): the LangChain messages of the rows.
LoadedMessages(table, rows) ==
  [i \in 1..Len(rows) |-> RowMessage(table[rows[i]])]

\* getConversationMessages without a read failure: the possible results.
GetConversationMessages(table, conversationId, limit) ==
  {LoadedMessages(table, rows) :
     rows \in RecentRows(table, conversationId, limit)}

\* Mutant: the catch hands back a message instead of the empty array.
CaughtReadErrorStale == <<HumanMessage("hi")>>

\* getConversationMessages, catch: return [].
CaughtReadError == <<>>

\* createConversation: a new row with the next id and the state {}.
CreateConversation(convs, userId) ==
  Append(convs, [id |-> Len(convs) + 1, userId |-> userId, state |-> "default"])

\* A service call and what it gave back.  failed: the call threw, or (for
\* getConversationMessages) caught the failure of its query.
Return(op, conversationId, limit, batch, rows, value, failed) ==
  [op |-> op, conversationId |-> conversationId, limit |-> limit,
   batch |-> batch, rows |-> rows, value |-> value, failed |-> failed]

NoReturn == Return("none", 0, 0, <<>>, <<>>, <<>>, FALSE)

\* The call threw; its caller gets no value.
Threw(op) == Return(op, 0, 0, <<>>, <<>>, <<>>, TRUE)

SaveMessagesReturn(conversationId, batch) ==
  Return("saveMessages", conversationId, 0, batch, <<>>, <<>>, FALSE)

\* ------------------------------------------------------------ MCPService
\* Mutant: connectServer marks the name connected without storing it.
ConnectedRegistryNot(reg, name) == reg

\* connectServer once client.connect has resolved: the server is stored
\* with its client and marked connected.
ConnectedRegistry(reg, name) == reg \cup {name}

\* Mutant: callTool without the client check.
CallToolNeverThrows(reg, serverName) == FALSE

\* callTool throws "Server ... not connected" when the server has no client.
CallToolThrows(reg, serverName) == serverName \notin reg

\* disconnectAll: disconnectServer for every name of connectedServers; each
\* one that has a client is removed from both collections (whether close
\* resolves, rejects or times out).
DisconnectAllNames(reg, conn) == {n \in conn : n \in reg}

\* The names connectServer is called with when GITHUB_TOKEN is set.
KnownServers == {"filesystem", "github"}

\* The lists a server may answer tools/list with.
ToolLists == {<<>>, <<"list_files">>}

\* The names getServerForTool is asked about: one that a server may list
\* and one that no server lists.
RoutedTools == {"list_files", "create_issue"}

\* No server has a tools field.
NoTools == [name \in KnownServers |-> {}]

\* No connectServer call has succeeded.
NoConnections == [name \in KnownServers |-> 0]

\* The transport connectServer(name) created for the id-th connection of
\* that name.  Its onclose callback closes over the name only.
Transport(name, id) == [name |-> name, id |-> id]

\* The transport of a connectServer(name) call whose client.connect was
\* rejected, the k-th of those of the name that are still open.  Its onclose
\* callback is the same one.
FailedTransport(name, k) == [name |-> name, id |-> 0 - k]

\* The transports of rejected connects among the open ones.
FailedTransports(open) == {transport \in open : transport.id < 0}

\* The transports of rejected connects to one name differ in their number
\* only: the one that closes is taken to be the last of them.
MayClose(open, transport) ==
  transport.id < 0 =>
    \A other \in FailedTransports(open) :
      other.name = transport.name => other.id >= transport.id

\* transport.onclose: this.connectedServers.delete(name).
OnClose(conn, transport) == conn \ {transport.name}

\* this.servers.set(name, ...): a new key goes to the end of the Map's
\* iteration order, an existing key keeps its place.
MapSet(order, name) ==
  IF \E i \in 1..Len(order) : order[i] = name THEN order
  ELSE Append(order, name)

\* this.servers.delete(name).
MapDelete(order, name) == SelectSeq(order, LAMBDA n : n # name)

\* isConnected(serverName).
IsConnected(conn, serverName) == serverName \in conn

\* server.tools?.some(tool => tool.name === toolName)
HasTool(cache, name, toolName) ==
  \E tools \in cache[name] : \E i \in 1..Len(tools) : tools[i] = toolName

\* getServerForTool(toolName): the first server of the registry, in the
\* Map's order, whose cached tools hold the name; <<>> stands for null.
GetServerForTool(order, cache, toolName) ==
  LET holders == SelectSeq(order, LAMBDA n : HasTool(cache, n, toolName))
  IN IF holders = <<>> THEN <<>> ELSE <<Head(holders)>>

\* Mutant: the list is cached on every server.
CacheToolsEverywhere(cache, name, tools) == [n \in KnownServers |-> {tools}]

\* listTools: server.tools = tools.
CacheTools(cache, name, tools) == [cache EXCEPT ![name] = {tools}]

\* Mutant: a rejected close leaves the server registered.
RemovedAfterCloseUnlessRejected(settled) == settled # "rejected"

\* disconnectServer: the two deletes follow the inner try/catch, so they
\* run whether the close resolved, rejected or was outrun by the timeout.
RemovedAfterClose(settled) == settled \in {"resolved", "rejected", "timeout"}

\* Who makes a call of MCPService: main(), or one run of a signal handler
\* (the handler of a signal runs once for each arrival of the signal).
MainCaller == [sig |-> "none", run |-> 0]

HandlerRun(sig, n) == [sig |-> sig, run |-> n]

\* A call that waits for its client, made by main() or by a run of a signal
\* handler.
Pending(op, name, by) == [op |-> op, name |-> name, by |-> by]

\* disconnectAll: one disconnectServer per connected name; each one with a
\* client waits for its close.
DisconnectAllAttempts(reg, conn, by) ==
  {Pending("disconnectServer", n, by) : n \in DisconnectAllNames(reg, conn)}

\* Mutant: the handler does not wait for the attempts.
DisconnectAllResolvedAtOnce(calls, by) == TRUE

\* disconnectAll resolves: Promise.all over its attempts.
DisconnectAllResolved(calls, by) ==
  \A call \in calls : ~(call.op = "disconnectServer" /\ call.by = by)

\* The disconnectAll of some run of a handler has resolved: the run's next
\* statement is process.exit(0).
HandlerReady(calls, runs) ==
  \E run \in runs : DisconnectAllResolved(calls, run)

\* A handler runs on from the await that was answered: with its
\* disconnectAll resolved it calls process.exit(0).
HandlerExits(calls, runs) ==
  IF HandlerReady(calls, runs) THEN "exit(0)" ELSE "running"

\* An MCPService call that has returned: how its client answered, the value
\* it resolved with, whether it threw to its caller.
McpReturn(call, settled, value, threw) ==
  [op |-> call.op, name |-> call.name, by |-> call.by,
   outcome |-> settled, value |-> value, threw |-> threw]

\* ------------------------------------------------------------- the graph
\* Mutant: the conditional edge ignores the flag.
ShouldContinueAlways(flag) == "continue"

\* edges.ts
ShouldContinueToTools(flag) == IF flag THEN "continue" ELSE "end"

\* Mutant: the graph is entered at the tool node.
EntryAtToolUse == "toolUse"

\* graph.ts: the entry point and the edges.
EntryPoint == "userInput"

NextNode(node, flag) ==
  IF node = "userInput" THEN "model"
  ELSE IF node = "model"
    THEN (IF ShouldContinueToTools(flag) = "continue" THEN "toolUse" ELSE "end")
  ELSE "model"

\* The superstep of graph.invoke in which a node runs, after the given
\* number of tool rounds: userInput in the first, the model node in the
\* even ones, toolUse in the odd ones after it.
Superstep(node, toolRounds) ==
  IF node = "userInput" THEN 1
  ELSE IF node = "model" THEN 2 * toolRounds + 2
  ELSE 2 * toolRounds + 1

\* The graph runtime runs a node only within its recursion limit.
WithinRecursionLimit(node, toolRounds) ==
  Superstep(node, toolRounds) <= RecursionLimit

\* Mutant: a reducer that replaces instead of appending.
ReplacingReducer(old, update) == update

\* state.ts: the messages reducer appends a node's messages.
MessagesReducer(old, update) == old \o update

\* The call descriptors of a request of n calls, ids first, first + 1, ...
CallSeqs(n, first) ==
  {[i \in 1..n |-> [id |-> first + i - 1, name |-> f[i]]] :
     f \in [1..n -> ToolNames]}

\* toolUseNode reads the pending calls off the last message.
PendingCalls(msgs) ==
  IF Len(msgs) = 0 THEN <<>> ELSE msgs[Len(msgs)].tool_calls

\* The content of the tool Message for a finished call.
ToolContent(result) == IF result = "ok" THEN "result" ELSE "Error: tool failed"

\* Mutant: the tool messages come out in the reverse order of the calls.
ToolMessagesReversed(calls, res) ==
  [i \in 1..Len(calls) |->
     ToolMessage(ToolContent(res[Len(calls) + 1 - i]),
                 calls[Len(calls) + 1 - i].id, calls[Len(calls) + 1 - i].name)]

\* toolUseNode: one ToolMessage per call, in the order of the calls.
ToolMessages(calls, res) ==
  [i \in 1..Len(calls) |->
     ToolMessage(ToolContent(res[i]), calls[i].id, calls[i].name)]

\* Mutant: the node returns as soon as one call has its result.
AnyResultCollected(res) == \E i \in 1..Len(res) : res[i] # "pending"

\* toolUseNode returns once every pending call has its result.
AllResultsCollected(res) == \A i \in 1..Len(res) : res[i] # "pending"

\* What the model node hands to generateResponse.
GeneratorArgument(msgs) == msgs

\* -------------------------------------------------------------- index.ts
\* Mutant: the input is compared as it was typed.
ToLowerCaseNot(input) == input

\* userInput.toLowerCase(), on the inputs of UserInputs.
ToLowerCase(input) ==
  IF input = "/EXIT" THEN "/exit"
  ELSE IF input = "/Tools" THEN "/tools"
  ELSE input

IsCommand(input) == ToLowerCase(input) \in {"/exit", "/help", "/tools"}

\* processUserInput: initialState.messages.
InitialMessages(history, input) == history \o <<HumanMessage(input)>>

\* The texts that are empty or hold white space only.
BlankTexts == {"", "  "}

\* content.trim(), on the texts of the model.
Trim(text) == IF text \in BlankTexts THEN "" ELSE text

\* The test of the scan: an AIMessage whose content is truthy, is a string
\* and is not blank.
HasResponseText(m) ==
  /\ m.type = "ai"
  /\ m.content # ""
  /\ TypeofString(m.content)
  /\ Trim(m.content) # ""

\* processUserInput: the content of the last message that passes the test,
\* scanning from the end to the first message; "" when there is none.
RECURSIVE FinalResponse(_)
FinalResponse(msgs) ==
  IF Len(msgs) = 0 THEN ""
  ELSE LET m == msgs[Len(msgs)]
       IN IF HasResponseText(m) THEN m.content
          ELSE FinalResponse(SubSeq(msgs, 1, Len(msgs) - 1))

Displayed(msgs) ==
  IF FinalResponse(msgs) # "" THEN FinalResponse(msgs) ELSE Placeholder

\* Mutant: no catch inside the loop; the error ends the process.
LoopEndsOnError == "exited"

\* main(): the interaction loop catches a turn's error and prompts again.
LoopAfterError == "prompt"

\* Outcomes of a generateResponse call.
NoOutcome == [kind |-> "none", text |-> "", calls |-> <<>>]

FinalAnswer(text) == [kind |-> "final", text |-> text, calls |-> <<>>]

CapabilityRequest(calls) == [kind |-> "tool_use", text |-> "", calls |-> calls]

GeneratorFailure == [kind |-> "fail", text |-> "", calls |-> <<>>]

\* main(): the conversation of the session is the one createConversation
\* ('user') returned.
SessionConversationId(convs) == convs[Len(convs)].id

\* The line read at the prompt and the result of processUserInput for it:
\* "running" until it returns, then "exit", "continue" or "error" (it threw).
Call(input, result) == [input |-> input, result |-> result]

NoInput == Call("", "none")

NoTurn ==
  /\ messages' = <<>>
  /\ shouldContinue' = TRUE
  /\ results' = <<>>
  /\ invoked' = <<>>
  /\ produced' = <<>>
  /\ dbBase' = 0
  /\ outcome' = NoOutcome
  /\ genInput' = <<>>
  /\ genCalls' = 0
  /\ gatewayCalls' = 0
  /\ rounds' = 0

\* ------------------------------------------- the store's operations alone
\* The variables of the interaction loop and of the graph.
loopVars == <<pc, startIdx, nextId, turns, display, io,
              messages, shouldContinue, results, invoked, produced, dbBase,
              outcome, genInput, genCalls, gatewayCalls, rounds>>

\* No interaction loop is running: a caller uses the services directly.
NoLoop ==
  /\ pc = "service"
  /\ startIdx = 1
  /\ nextId = 1
  /\ turns = 0
  /\ display = ""
  /\ io = NoInput
  /\ messages = <<>>
  /\ shouldContinue = TRUE
  /\ results = <<>>
  /\ invoked = <<>>
  /\ produced = <<>>
  /\ dbBase = 0
  /\ outcome = NoOutcome
  /\ genInput = <<>>
  /\ genCalls = 0
  /\ gatewayCalls = 0
  /\ rounds = 0

\* The batches the callers save: a user message alone, and a request of one
\* call together with its result, a structured payload.
Batches ==
  {<<HumanMessage("hi")>>,
   <<AIMessage("", <<[id |-> 1, name |-> "list_files"]>>),
     ToolMessage(StructuredContent, 1, "list_files")>>}

\* The states updateState is called with.
States == {"{step:1}"}

ConversationIds(convs) == {convs[i].id : i \in 1..Len(convs)}

\* prisma.conversation.update: the row of the conversation gets the state.
ConversationUpdate(convs, conversationId, state) ==
  [i \in 1..Len(convs) |->
     IF convs[i].id = conversationId
       THEN [convs[i] EXCEPT !.state = state] ELSE convs[i]]

\* getConversation, include messages orderBy createdAt asc: the orders the
\* query may give.
MessagesAsc(table, conversationId) ==
  {Reverse(p) :
     p \in OrderByDescTake(table, WhereConversation(table, conversationId),
                           Len(table))}

\* The rows and states written by saveToolExecution and updateState, and
\* the checkpoints of the updateState calls that are at their second
\* statement.
Written ==
  Len(toolExecutions) + Len(stateCheckpoints)
    + Cardinality({i \in 1..Len(conversations) :
                     conversations[i].state # "default"})
    + Cardinality({call \in inflight : call.op = "updateState"})

StoreInit ==
  /\ NoLoop
  /\ servers = {}
  /\ connectedServers = {}
  /\ db = <<>>
  /\ clock = 1
  /\ conversations = <<>>
  /\ toolExecutions = <<>>
  /\ stateCheckpoints = <<>>
  /\ ret = NoReturn
  /\ toolsCache = NoTools
  /\ inflight = {}
  /\ handling = {}
  /\ connections = NoConnections
  /\ transports = {}
  /\ registryOrder = <<>>
  /\ processExit = "running"

\* What no store operation touches.
storeFrame == <<loopVars, servers, connectedServers, toolsCache,
                handling, connections, transports, registryOrder,
                processExit>>

\* createConversation(userId): the row is created, or the create throws.
CreateConversationCall ==
  /\ Len(conversations) < MaxConversations
  /\ \E ok \in BOOLEAN :
       IF ok
         THEN /\ conversations' = CreateConversation(conversations, "user")
              /\ ret' = Return("createConversation", Len(conversations) + 1,
                               0, <<>>, <<>>, <<>>, FALSE)
         ELSE /\ ret' = Threw("createConversation")
              /\ UNCHANGED conversations
  /\ UNCHANGED <<db, clock, toolExecutions, stateCheckpoints>>
  /\ UNCHANGED inflight
  /\ UNCHANGED storeFrame

\* getConversation(id): the conversation with its messages, oldest first;
\* null for an unknown id; or the query throws.
GetConversationCall ==
  /\ \E id \in 1..MaxConversations, ok \in BOOLEAN :
       IF ok
         THEN \E rows \in IF id \in ConversationIds(conversations)
                             THEN MessagesAsc(db, id) ELSE {<<>>} :
                ret' = Return("getConversation", id, 0, <<>>, rows,
                              LoadedMessages(db, rows), FALSE)
         ELSE ret' = Threw("getConversation")
  /\ UNCHANGED <<db, clock, conversations, toolExecutions, stateCheckpoints>>
  /\ UNCHANGED inflight
  /\ UNCHANGED storeFrame

\* saveMessages(conversationId, batch): createMany inserts the batch with
\* one statement, or throws and inserts nothing (as it does for a
\* conversation that does not exist).
SaveMessagesCall ==
  /\ \E id \in 1..MaxConversations, batch \in Batches, ok \in BOOLEAN :
       /\ Len(db) + Len(batch) <= MaxRows
       /\ IF ok /\ id \in ConversationIds(conversations)
            THEN /\ db' = SaveMessages(db, id, batch, clock)
                 /\ clock' = clock + 1
                 /\ ret' = SaveMessagesReturn(id, batch)
            ELSE /\ ret' = Threw("saveMessages")
                 /\ UNCHANGED <<db, clock>>
  /\ UNCHANGED <<conversations, toolExecutions, stateCheckpoints>>
  /\ UNCHANGED inflight
  /\ UNCHANGED storeFrame

\* saveToolExecution: one ToolExecution row, or the create throws.
SaveToolExecutionCall ==
  /\ Written < MaxRecords
  /\ \E id \in 1..MaxConversations, ok \in BOOLEAN :
       IF ok /\ id \in ConversationIds(conversations)
         THEN /\ toolExecutions' =
                   Append(toolExecutions,
                          [conversationId |-> id, toolName |-> "list_files",
                           status |-> "COMPLETED"])
              /\ ret' = Return("saveToolExecution", id, 0, <<>>, <<>>, <<>>, FALSE)
         ELSE /\ ret' = Threw("saveToolExecution")
              /\ UNCHANGED toolExecutions
  /\ UNCHANGED <<db, clock, conversations, stateCheckpoints>>
  /\ UNCHANGED inflight
  /\ UNCHANGED storeFrame

\* The state column of the conversation, "" when there is no such row.
StateOf(convs, conversationId) ==
  IF conversationId \in ConversationIds(convs)
    THEN (CHOOSE c \in Range(convs) : c.id = conversationId).state
  ELSE ""

\* An updateState call between its two statements: its arguments, and the
\* state the conversation had when the call was made.
UpdatePending(conversationId, state, step, was) ==
  [op |-> "updateState", conversationId |-> conversationId, state |-> state,
   step |-> step, was |-> was]

\* updateState, first statement: prisma.conversation.update answers.  It
\* throws (as it does for a conversation that does not exist) and
\* updateState rethrows; or the row has the new state and the call goes on
\* to its second statement, outside any transaction.
UpdateStateCall ==
  /\ Written < MaxRecords
  /\ \E id \in 1..MaxConversations, state \in States, updated \in BOOLEAN :
       /\ updated => id \in ConversationIds(conversations)
       /\ IF updated
            THEN /\ conversations' = ConversationUpdate(conversations, id, state)
                 /\ inflight' =
                      inflight \cup {UpdatePending(id, state, 1,
                                                  StateOf(conversations, id))}
                 /\ ret' = NoReturn
            ELSE /\ ret' = Threw("updateState")
                 /\ UNCHANGED <<conversations, inflight>>
  /\ UNCHANGED <<db, clock, toolExecutions, stateCheckpoints>>
  /\ UNCHANGED storeFrame

\* updateState, second statement: prisma.stateCheckpoint.create answers.
\* The checkpoint is created and updateState returns; or it throws and
\* updateState rethrows, what the first statement wrote staying.
UpdateStateSettles ==
  /\ \E call \in inflight, created \in BOOLEAN :
       /\ call.op = "updateState"
       /\ IF created
            THEN /\ stateCheckpoints' =
                      Append(stateCheckpoints,
                             [conversationId |-> call.conversationId,
                              state |-> call.state, step |-> call.step])
                 /\ ret' = Return("updateState", call.conversationId, 0,
                                  <<>>, <<>>, <<>>, FALSE)
            ELSE /\ ret' = Threw("updateState")
                 /\ UNCHANGED stateCheckpoints
       /\ inflight' = inflight \ {call}
  /\ UNCHANGED <<db, clock, conversations, toolExecutions>>
  /\ UNCHANGED storeFrame

\* getConversationMessages(conversationId, limit): the recent rows as
\* messages, or [] when the query fails.
GetConversationMessagesCall ==
  /\ \E id \in 1..MaxConversations, limit \in 1..MaxLimit, failed \in BOOLEAN :
       \E rows \in IF failed THEN {<<>>} ELSE RecentRows(db, id, limit) :
         ret' = Return("getConversationMessages", id, limit, <<>>, rows,
                       IF failed THEN CaughtReadError
                       ELSE LoadedMessages(db, rows),
                       failed)
  /\ UNCHANGED <<db, clock, conversations, toolExecutions, stateCheckpoints>>
  /\ UNCHANGED inflight
  /\ UNCHANGED storeFrame

StoreNext ==
  \/ CreateConversationCall
  \/ GetConversationCall
  \/ SaveMessagesCall
  \/ SaveToolExecutionCall
  \/ UpdateStateCall
  \/ UpdateStateSettles
  \/ GetConversationMessagesCall

StoreSpec == StoreInit /\ [][StoreNext]_vars

\* ------------------------------------------------ MCPService alone
\* The two signals index.ts handles.
Signals == {"SIGINT", "SIGTERM"}

McpInit ==
  /\ NoLoop
  /\ servers = {}
  /\ connectedServers = {}
  /\ db = <<>>
  /\ clock = 1
  /\ conversations = <<>>
  /\ toolExecutions = <<>>
  /\ stateCheckpoints = <<>>
  /\ ret = NoReturn
  /\ toolsCache = NoTools
  /\ inflight = {}
  /\ handling = {}
  /\ connections = NoConnections
  /\ transports = {}
  /\ registryOrder = <<>>
  /\ processExit = "running"

\* What no MCPService call touches.
mcpFrame == <<loopVars, db, clock, conversations, toolExecutions,
              stateCheckpoints>>

\* The process is running.
Running == processExit = "running"

\* main() awaits each call before it makes the next one.
MainIdle == \A call \in inflight : call.by # MainCaller

\* client.connect of a connectServer(name) call settles.  It resolves: the
\* server is stored (a new object, without tools) and marked connected, its
\* transport open.  Or it rejects and connectServer rethrows: nothing is
\* stored; the transport, whose onclose was installed before the connect,
\* has closed by then and its callback has run, or it is still open and
\* may close later.
ConnectSettles(name, ok, closed) ==
  IF ok
    THEN /\ servers' = ConnectedRegistry(servers, name)
         /\ registryOrder' = MapSet(registryOrder, name)
         /\ connectedServers' = connectedServers \cup {name}
         /\ toolsCache' = [toolsCache EXCEPT ![name] = {}]
         /\ connections' =
              [connections EXCEPT ![name] = connections[name] + 1]
         /\ transports' =
              transports \cup {Transport(name, connections[name] + 1)}
         /\ ret' = McpReturn(Pending("connectServer", name, MainCaller),
                             "resolved", <<>>, FALSE)
    ELSE LET failed ==
               FailedTransport(name,
                 Cardinality({transport \in FailedTransports(transports) :
                                transport.name = name}) + 1)
         IN /\ connectedServers' =
                 IF closed THEN OnClose(connectedServers, failed)
                 ELSE connectedServers
            /\ transports' =
                 IF closed THEN transports ELSE transports \cup {failed}
            /\ ret' = McpReturn(Pending("connectServer", name, MainCaller),
                                "rejected", <<>>, TRUE)
            /\ UNCHANGED <<servers, toolsCache, connections, registryOrder>>

\* connectServer(name), while fewer than limit calls for that name have
\* succeeded.
ConnectServerCall(limit) ==
  /\ Running
  /\ MainIdle
  /\ \E name \in KnownServers, ok \in BOOLEAN, closed \in BOOLEAN :
       /\ connections[name] < limit
       /\ ok => ~closed
       /\ (~ok /\ ~closed) =>
            Cardinality(FailedTransports(transports)) < MaxFailedConnects
       /\ ConnectSettles(name, ok, closed)
  /\ UNCHANGED <<inflight, handling, processExit>>
  /\ UNCHANGED mcpFrame

\* An open transport closes (its process has ended, or a close() of its
\* client has taken effect) and its onclose callback runs.
TransportClosed ==
  /\ Running
  /\ \E transport \in transports :
       /\ MayClose(transports, transport)
       /\ connectedServers' = OnClose(connectedServers, transport)
       /\ transports' = transports \ {transport}
  /\ UNCHANGED <<servers, toolsCache, inflight, handling, processExit,
                 connections, registryOrder>>
  /\ ret' = NoReturn
  /\ UNCHANGED mcpFrame

\* disconnectServer(name) called by main(): without a registered client it
\* returns at once and changes nothing; with one it calls client.close() and
\* waits for the race with the timeout.
DisconnectServerCall ==
  /\ Running
  /\ MainIdle
  /\ \E name \in KnownServers :
       IF name \in servers
         THEN /\ inflight' = inflight \cup {Pending("disconnectServer", name, MainCaller)}
              /\ ret' = NoReturn
         ELSE /\ ret' = McpReturn(Pending("disconnectServer", name, MainCaller),
                                  "unregistered", <<>>, FALSE)
              /\ UNCHANGED inflight
  /\ UNCHANGED <<servers, connectedServers, toolsCache, handling, processExit,
                 connections, transports, registryOrder>>
  /\ UNCHANGED mcpFrame

\* The race of a disconnectServer settles: close resolved, close rejected
\* (swallowed), or the timeout came first.  Then the two deletes; and when
\* the call was the last one a handler's disconnectAll waited for, the
\* handler goes on to process.exit(0).
CloseSettle(call) ==
  /\ Running
  /\ call \in inflight
  /\ \E settled \in {"resolved", "rejected", "timeout"} :
       /\ call.op = "disconnectServer"
       /\ IF RemovedAfterClose(settled)
            THEN /\ servers' = servers \ {call.name}
                 /\ connectedServers' = connectedServers \ {call.name}
                 /\ toolsCache' = [toolsCache EXCEPT ![call.name] = {}]
                 /\ registryOrder' = MapDelete(registryOrder, call.name)
            ELSE UNCHANGED <<servers, connectedServers, toolsCache,
                             registryOrder>>
       /\ inflight' = inflight \ {call}
       /\ ret' = McpReturn(call, settled, <<>>, FALSE)
  /\ processExit' = HandlerExits(inflight', handling)
  /\ UNCHANGED <<handling, connections, transports>>
  /\ UNCHANGED mcpFrame

\* listTools(serverName) called by main(): without a registered client the
\* throw is caught and [] returned; with one it waits for client.listTools().
ListToolsCall ==
  /\ Running
  /\ MainIdle
  /\ \E name \in KnownServers :
       IF name \in servers
         THEN /\ inflight' = inflight \cup {Pending("listTools", name, MainCaller)}
              /\ ret' = NoReturn
         ELSE /\ ret' = McpReturn(Pending("listTools", name, MainCaller),
                                  "unregistered", <<>>, FALSE)
              /\ UNCHANGED inflight
  /\ UNCHANGED <<servers, connectedServers, toolsCache, handling, processExit,
                 connections, transports, registryOrder>>
  /\ UNCHANGED mcpFrame

\* client.listTools() settles: with a list, which is cached on the server
\* object (still in the registry unless a disconnect removed it meanwhile)
\* and returned; or with a rejection, which is caught and [] returned.
ListToolsAnswer(call, ok, tools) ==
  IF ok
    THEN /\ toolsCache' = IF call.name \in servers
                            THEN CacheTools(toolsCache, call.name, tools)
                          ELSE toolsCache
         /\ ret' = McpReturn(call, "resolved", tools, FALSE)
    ELSE /\ ret' = McpReturn(call, "rejected", <<>>, FALSE)
         /\ UNCHANGED toolsCache

\* The client.listTools() of a listTools call made through the service
\* settles.
ListToolsSettles ==
  /\ Running
  /\ \E call \in inflight, ok \in BOOLEAN, tools \in ToolLists :
       /\ call.op = "listTools"
       /\ ListToolsAnswer(call, ok, tools)
       /\ inflight' = inflight \ {call}
  /\ UNCHANGED <<servers, connectedServers, handling, processExit,
                 connections, transports, registryOrder>>
  /\ UNCHANGED mcpFrame

\* getServerForTool(toolName), called between two awaits of main().
GetServerForToolCall ==
  /\ Running
  /\ MainIdle
  /\ \E toolName \in RoutedTools :
       ret' = McpReturn(Pending("getServerForTool", toolName, MainCaller),
                        "returned",
                        GetServerForTool(registryOrder, toolsCache, toolName),
                        FALSE)
  /\ UNCHANGED <<servers, connectedServers, toolsCache, inflight, handling,
                 processExit, connections, transports, registryOrder>>
  /\ UNCHANGED mcpFrame

\* callTool(serverName, toolName, args) called by main(): without a
\* registered client it throws "Server ... not connected"; with one it
\* calls client.callTool and waits for the response.
CallToolCall ==
  /\ Running
  /\ MainIdle
  /\ \E name \in KnownServers :
       IF CallToolThrows(servers, name)
         THEN /\ ret' = McpReturn(Pending("callTool", name, MainCaller),
                                  "unregistered", <<>>, TRUE)
              /\ UNCHANGED inflight
         ELSE /\ inflight' = inflight \cup {Pending("callTool", name, MainCaller)}
              /\ ret' = NoReturn
  /\ UNCHANGED <<servers, connectedServers, toolsCache, handling, processExit,
                 connections, transports, registryOrder>>
  /\ UNCHANGED mcpFrame

\* client.callTool() settles: the response is returned, or the rejection is
\* rethrown.
CallToolSettles ==
  /\ Running
  /\ \E call \in inflight, ok \in BOOLEAN :
       /\ call.op = "callTool"
       /\ ret' = McpReturn(call, IF ok THEN "resolved" ELSE "rejected",
                           <<>>, ~ok)
       /\ inflight' = inflight \ {call}
  /\ UNCHANGED <<servers, connectedServers, toolsCache, handling, processExit,
                 connections, transports, registryOrder>>
  /\ UNCHANGED mcpFrame

\* One of the signals arrives and its handler runs: it calls disconnectAll,
\* which starts a disconnectServer for every server connected at this
\* moment; with none to wait for, the handler goes on to process.exit(0).
\* A signal that arrives again runs the handler again, with a disconnectAll
\* of its own.
SignalArrives(sigs, limit) ==
  /\ Running
  /\ Cardinality(handling) < limit
  /\ \E sig \in sigs :
       LET run == HandlerRun(sig, Cardinality({r \in handling : r.sig = sig}) + 1)
       IN /\ handling' = handling \cup {run}
          /\ inflight' =
               inflight \cup DisconnectAllAttempts(servers, connectedServers, run)
  /\ processExit' = HandlerExits(inflight', handling')
  /\ UNCHANGED <<servers, connectedServers, toolsCache, connections,
                 transports, registryOrder>>
  /\ ret' = NoReturn
  /\ UNCHANGED mcpFrame

\* process.on('uncaughtException'): an error other than EPIPE ends the
\* process with code 1, at once.
UncaughtException ==
  /\ Running
  /\ processExit' = "exit(1)"
  /\ UNCHANGED <<servers, connectedServers, toolsCache, inflight, handling,
                 connections, transports, registryOrder>>
  /\ ret' = NoReturn
  /\ UNCHANGED mcpFrame

CloseSettles == \E call \in inflight : CloseSettle(call)

\* SIGINT or SIGTERM arrives.
SignalReceived == SignalArrives(Signals, MaxSignals)

\* main() connects each server once, at startup.
ConnectAtStartup == ConnectServerCall(StartupConnections)

McpNext ==
  \/ ConnectAtStartup
  \/ TransportClosed
  \/ DisconnectServerCall
  \/ CloseSettles
  \/ SignalReceived
  \/ UncaughtException

McpSpec == McpInit /\ [][McpNext]_vars

\* A close that is waited for settles: the timeout sees to it.
McpFairSpec == McpSpec /\ WF_vars(CloseSettles)

\* The same, with main() also listing the tools of the servers.
McpToolsNext ==
  \/ McpNext
  \/ ListToolsCall
  \/ ListToolsSettles

McpToolsSpec == McpInit /\ [][McpToolsNext]_vars

\* ------------------------------------- MCPService with one caller
\* The methods of MCPService called in any order by a caller that awaits
\* each call, a name being connected again and again, transports closing
\* at any time, and no signal.
ConnectAgain == ConnectServerCall(MaxConnections)

\* disconnectAll() called by main() (the finally block): a disconnectServer
\* for every connected name, all awaited together.
DisconnectAllCall ==
  /\ Running
  /\ MainIdle
  /\ inflight' =
       inflight \cup DisconnectAllAttempts(servers, connectedServers, MainCaller)
  /\ ret' = IF DisconnectAllAttempts(servers, connectedServers, MainCaller) = {}
            THEN McpReturn(Pending("disconnectAll", "", MainCaller),
                           "resolved", <<>>, FALSE)
            ELSE NoReturn
  /\ UNCHANGED <<servers, connectedServers, toolsCache, handling, processExit,
                 connections, transports, registryOrder>>
  /\ UNCHANGED mcpFrame

RegistryNext ==
  \/ ConnectAgain
  \/ TransportClosed
  \/ DisconnectServerCall
  \/ DisconnectAllCall
  \/ CloseSettles
  \/ ListToolsCall
  \/ ListToolsSettles
  \/ GetServerForToolCall
  \/ CallToolCall
  \/ CallToolSettles

RegistrySpec == McpInit /\ [][RegistryNext]_vars

\* ------------------------------------------------------ main() of index.ts
\* A step of main() is the answer to the call it is waiting for, followed by
\* what main() does until it waits again.  The transports, the signal
\* handlers and the uncaughtException handler run between these steps.

\* main() has started and waits for createConversation('system-test').
Init ==
  /\ pc = "boot"
  /\ startIdx = 1
  /\ servers = {}
  /\ connectedServers = {}
  /\ db = <<>>
  /\ clock = 1
  /\ nextId = 1
  /\ turns = 0
  /\ messages = <<>>
  /\ shouldContinue = TRUE
  /\ results = <<>>
  /\ invoked = <<>>
  /\ produced = <<>>
  /\ dbBase = 0
  /\ outcome = NoOutcome
  /\ genInput = <<>>
  /\ genCalls = 0
  /\ gatewayCalls = 0
  /\ rounds = 0
  /\ display = "welcome"
  /\ io = NoInput
  /\ conversations = <<>>
  /\ toolExecutions = <<>>
  /\ stateCheckpoints = <<>>
  /\ ret = NoReturn
  /\ toolsCache = NoTools
  /\ inflight = {}
  /\ handling = {}
  /\ connections = NoConnections
  /\ transports = {}
  /\ registryOrder = <<>>
  /\ processExit = "running"

\* main(), outer catch: 'Fatal error: ...' and process.exit(1).  The finally
\* block does not run: the servers stay as they are.
FatalError ==
  /\ display' = "Fatal error"
  /\ processExit' = "exit(1)"

\* createConversation(userId) called by main() answers: the row is created
\* and main() goes on at the position given, or the create throws and the
\* outer catch ends the process.
CreateConversationAnswers(userId, next) ==
  \E ok \in BOOLEAN :
    IF ok
      THEN /\ conversations' = CreateConversation(conversations, userId)
           /\ ret' = Return("createConversation", Len(conversations) + 1,
                            0, <<>>, <<>>, <<>>, FALSE)
           /\ pc' = next
           /\ UNCHANGED <<display, processExit>>
      ELSE /\ ret' = Threw("createConversation")
           /\ FatalError
           /\ UNCHANGED <<pc, conversations>>

\* main(): the test of the database connection.
TestDatabase ==
  /\ Running
  /\ pc = "boot"
  /\ CreateConversationAnswers("system-test", "startup")
  /\ UNCHANGED <<startIdx, db, clock, nextId, turns, io>>
  /\ UNCHANGED mcpVars
  /\ UNCHANGED turnVars
  /\ UNCHANGED auxVars

\* getAllTools: the position (in the order the names were added) of the
\* next name the loop over connectedServers gives, from position idx on,
\* whose listTools call has a client to wait for; 0 when the loop is over.
\* A name without a client has its [] at once and the loop goes on.
NextListed(reg, conn, idx) ==
  LET later == {i \in idx..Len(ServerNames) :
                  ServerNames[i] \in conn /\ ServerNames[i] \in reg}
  IN IF later = {} THEN 0
     ELSE CHOOSE i \in later : \A j \in later : i <= j

\* main() in getAllTools: listTools of the next connected server is called
\* and waits for its client; or the loop is over, getAllTools returns and
\* main() calls createConversation('user').
ListNextOrCreate(reg, conn, idx, calls) ==
  LET i == NextListed(reg, conn, idx)
  IN IF i = 0
       THEN /\ pc' = "creating"
            /\ startIdx' = Len(ServerNames) + 1
            /\ inflight' = calls
       ELSE /\ pc' = "listing"
            /\ startIdx' = i
            /\ inflight' =
                 calls \cup {Pending("listTools", ServerNames[i], MainCaller)}

\* main(): the connectServer it waits for settles; a failure is reported
\* and skipped.  After the last server main() calls getAllTools.
ConnectServer ==
  /\ Running
  /\ pc = "startup"
  /\ startIdx <= Len(ServerNames)
  /\ \E ok \in BOOLEAN, closed \in BOOLEAN :
       /\ ok => ~closed
       /\ ConnectSettles(ServerNames[startIdx], ok, closed)
  /\ IF startIdx < Len(ServerNames)
       THEN /\ startIdx' = startIdx + 1
            /\ UNCHANGED <<pc, inflight>>
       ELSE ListNextOrCreate(servers', connectedServers', 1, inflight)
  /\ UNCHANGED <<db, clock, nextId, turns, display, io, conversations>>
  /\ UNCHANGED turnVars
  /\ UNCHANGED <<toolExecutions, stateCheckpoints, handling, processExit>>

\* main() in getAllTools: the listTools it waits for settles, and the loop
\* goes on.
GetAllToolsStep ==
  /\ Running
  /\ pc = "listing"
  /\ LET call == Pending("listTools", ServerNames[startIdx], MainCaller)
     IN /\ call \in inflight
        /\ \E ok \in BOOLEAN, tools \in ToolLists :
             ListToolsAnswer(call, ok, tools)
        /\ ListNextOrCreate(servers, connectedServers, startIdx + 1,
                            inflight \ {call})
  /\ UNCHANGED <<db, clock, nextId, turns, display, io, conversations>>
  /\ UNCHANGED mcpVars
  /\ UNCHANGED turnVars
  /\ UNCHANGED <<toolExecutions, stateCheckpoints, handling, connections,
                 transports, registryOrder, processExit>>

\* main(): the session's conversation is created and the interaction loop
\* prompts; or the create throws.
StartLoop ==
  /\ Running
  /\ pc = "creating"
  /\ CreateConversationAnswers("user", "prompt")
  /\ UNCHANGED <<startIdx, db, clock, nextId, turns, io>>
  /\ UNCHANGED mcpVars
  /\ UNCHANGED turnVars
  /\ UNCHANGED auxVars

\* processUserInput on /exit: 'Goodbye!', return 'exit'; main() leaves the
\* loop and its finally block calls disconnectAll.
ExitCommand ==
  /\ Running
  /\ pc = "prompt"
  /\ \E input \in UserInputs :
       /\ ToLowerCase(input) = "/exit"
       /\ display' = "Goodbye!"
       /\ io' = Call(input, "exit")
  /\ inflight' =
       inflight \cup DisconnectAllAttempts(servers, connectedServers, MainCaller)
  /\ pc' = "cleanup"
  /\ UNCHANGED <<startIdx, db, clock, nextId, turns>>
  /\ UNCHANGED mcpVars
  /\ UNCHANGED turnVars
  /\ UNCHANGED <<conversations, processExit>>
  /\ ret' = NoReturn
  /\ UNCHANGED <<toolExecutions, stateCheckpoints, toolsCache, handling,
                 connections, transports, registryOrder>>

\* main(): the disconnectAll of the finally block has resolved and main()
\* returns.  process.exit is not called.
MainReturns ==
  /\ Running
  /\ pc = "cleanup"
  /\ DisconnectAllResolved(inflight, MainCaller)
  /\ pc' = "exited"
  /\ UNCHANGED <<startIdx, db, clock, nextId, turns, display>>
  /\ UNCHANGED mcpVars
  /\ UNCHANGED turnVars
  /\ UNCHANGED <<io, conversations, processExit>>
  /\ ret' = NoReturn
  /\ UNCHANGED auxVars

\* processUserInput on /help or /tools: display and return 'continue'.
InfoCommand ==
  /\ Running
  /\ pc = "prompt"
  /\ \E input \in UserInputs :
       /\ ToLowerCase(input) \in {"/help", "/tools"}
       /\ display' = ToLowerCase(input)
       /\ io' = Call(input, "continue")
  /\ UNCHANGED <<pc, startIdx, db, clock, nextId, turns>>
  /\ UNCHANGED mcpVars
  /\ UNCHANGED turnVars
  /\ UNCHANGED <<conversations, processExit>>
  /\ ret' = NoReturn
  /\ UNCHANGED auxVars

\* processUserInput on any other input: displayThinking, and the read of
\* the recent history is called.
StartTurn ==
  /\ Running
  /\ pc = "prompt"
  /\ turns < MaxTurns
  /\ \E input \in UserInputs :
       /\ ~IsCommand(input)
       /\ io' = Call(input, "running")
  /\ display' = "thinking"
  /\ turns' = turns + 1
  /\ pc' = "loading"
  /\ UNCHANGED <<startIdx, db, clock, nextId>>
  /\ UNCHANGED mcpVars
  /\ UNCHANGED turnVars
  /\ UNCHANGED <<conversations, processExit>>
  /\ ret' = NoReturn
  /\ UNCHANGED auxVars

\* processUserInput: the read answers (with an empty history when it
\* failed), the initial state is built and the graph invoked.
InvokeGraph ==
  /\ Running
  /\ pc = "loading"
  /\ \E failed \in BOOLEAN :
       \E rows \in IF failed THEN {<<>>}
                   ELSE RecentRows(db, SessionConversationId(conversations),
                                   HistoryLimit) :
         LET history == IF failed THEN CaughtReadError
                        ELSE LoadedMessages(db, rows)
         IN /\ ret' = Return("getConversationMessages",
                             SessionConversationId(conversations),
                             HistoryLimit, <<>>, rows, history, failed)
            /\ messages' = InitialMessages(history, io.input)
            /\ invoked' = InitialMessages(history, io.input)
  /\ shouldContinue' = TRUE
  /\ results' = <<>>
  /\ produced' = <<>>
  /\ dbBase' = Len(db)
  /\ outcome' = NoOutcome
  /\ genInput' = <<>>
  /\ genCalls' = 0
  /\ gatewayCalls' = 0
  /\ rounds' = 0
  /\ pc' = EntryPoint
  /\ UNCHANGED <<startIdx, db, clock, nextId, turns, display>>
  /\ UNCHANGED mcpVars
  /\ UNCHANGED <<io, conversations, processExit>>
  /\ UNCHANGED auxVars

\* userInputNode: persist the latest user message, return {}.
UserInputNode ==
  /\ Running
  /\ pc = "userInput"
  /\ db' = SaveMessages(db, SessionConversationId(conversations),
                        <<messages[Len(messages)]>>, clock)
  /\ ret' = SaveMessagesReturn(SessionConversationId(conversations),
                               <<messages[Len(messages)]>>)
  /\ clock' = clock + 1
  /\ pc' = NextNode("userInput", shouldContinue)
  /\ UNCHANGED <<startIdx, nextId, turns, display>>
  /\ UNCHANGED mcpVars
  /\ UNCHANGED turnVars
  /\ UNCHANGED <<io, conversations, processExit>>
  /\ UNCHANGED auxVars

\* modelNode: the message it creates for an outcome, and its shouldContinue.
ModelMessage(out) ==
  IF out.kind = "tool_use" THEN AIMessage("", out.calls)
  ELSE AIMessage(out.text, <<>>)

ModelContinue(out) == out.kind = "tool_use"

\* The model node's result: the new message is saved, appended, and the
\* conditional edge routes on shouldContinue.
ModelReturns(out) ==
  /\ outcome' = out
  /\ genInput' = GeneratorArgument(messages)
  /\ genCalls' = genCalls + 1
  /\ db' = SaveMessages(db, SessionConversationId(conversations),
                        <<ModelMessage(out)>>, clock)
  /\ ret' = SaveMessagesReturn(SessionConversationId(conversations),
                               <<ModelMessage(out)>>)
  /\ clock' = clock + 1
  /\ messages' = MessagesReducer(messages, <<ModelMessage(out)>>)
  /\ produced' = produced \o <<ModelMessage(out)>>
  /\ shouldContinue' = ModelContinue(out)
  /\ pc' = NextNode("model", ModelContinue(out))

\* modelNode, stop_reason end_turn.
ModelFinalAnswer ==
  /\ Running
  /\ pc = "model"
  /\ WithinRecursionLimit("model", rounds)
  /\ \E text \in AnswerTexts : ModelReturns(FinalAnswer(text))
  /\ UNCHANGED <<startIdx, nextId, turns, display>>
  /\ UNCHANGED mcpVars
  /\ UNCHANGED <<results, invoked, dbBase, gatewayCalls, rounds>>
  /\ UNCHANGED <<io, conversations, processExit>>
  /\ UNCHANGED auxVars

\* modelNode, stop_reason end_turn, and the response has no text or white
\* space only.
ModelEmptyAnswer ==
  /\ Running
  /\ pc = "model"
  /\ WithinRecursionLimit("model", rounds)
  /\ \E text \in BlankTexts : ModelReturns(FinalAnswer(text))
  /\ UNCHANGED <<startIdx, nextId, turns, display>>
  /\ UNCHANGED mcpVars
  /\ UNCHANGED <<results, invoked, dbBase, gatewayCalls, rounds>>
  /\ UNCHANGED <<io, conversations, processExit>>
  /\ UNCHANGED auxVars

\* modelNode, stop_reason tool_use: a request of up to callLimit calls, the
\* generator asking for at most roundLimit rounds in a turn and handing out
\* the ids idBase + 1 .. idBase + idLimit.
ModelRequests(roundLimit, callLimit, idBase, idLimit) ==
  /\ Running
  /\ pc = "model"
  /\ WithinRecursionLimit("model", rounds)
  /\ rounds < roundLimit
  /\ \E n \in 1..callLimit :
       /\ nextId + n - 1 <= idLimit
       /\ \E calls \in CallSeqs(n, idBase + nextId) :
            ModelReturns(CapabilityRequest(calls))
       /\ nextId' = nextId + n
       /\ results' = [i \in 1..n |-> "pending"]
  /\ rounds' = rounds + 1
  /\ UNCHANGED <<startIdx, turns, display>>
  /\ UNCHANGED mcpVars
  /\ UNCHANGED <<invoked, dbBase, gatewayCalls>>
  /\ UNCHANGED <<io, conversations, processExit>>
  /\ UNCHANGED auxVars

\* modelNode, stop_reason tool_use.
ModelToolUse == ModelRequests(MaxRounds, MaxCalls, 0, MaxIds)

\* modelNode: generateResponse throws; graph.invoke and processUserInput
\* reject, main()'s loop displays the error and prompts again.
ModelFails ==
  /\ Running
  /\ pc = "model"
  /\ WithinRecursionLimit("model", rounds)
  /\ pc' = LoopAfterError
  /\ display' = "An error occurred"
  /\ io' = Call(io.input, "error")
  /\ outcome' = GeneratorFailure
  /\ messages' = <<>>
  /\ shouldContinue' = TRUE
  /\ results' = <<>>
  /\ invoked' = <<>>
  /\ produced' = <<>>
  /\ dbBase' = 0
  /\ genInput' = <<>>
  /\ genCalls' = 0
  /\ gatewayCalls' = 0
  /\ rounds' = 0
  /\ UNCHANGED <<startIdx, db, clock, nextId, turns>>
  /\ UNCHANGED mcpVars
  /\ UNCHANGED <<conversations, processExit>>
  /\ ret' = NoReturn
  /\ UNCHANGED auxVars

\* toolUseNode: execute one pending call through mcpService.callTool; a
\* throw or a rejection becomes the call's result.
ExecuteCall ==
  /\ Running
  /\ pc = "toolUse"
  /\ \E i \in 1..Len(results) :
       /\ results[i] = "pending"
       /\ \E r \in {"ok", "error"} :
            /\ CallToolThrows(servers, ServerOf(PendingCalls(messages)[i].name))
                 => r = "error"
            /\ results' = [results EXCEPT ![i] = r]
  /\ gatewayCalls' = gatewayCalls + 1
  /\ UNCHANGED <<pc, startIdx, db, clock, nextId, turns, display>>
  /\ UNCHANGED mcpVars
  /\ UNCHANGED <<messages, shouldContinue, invoked, produced, dbBase,
                 outcome, genInput, genCalls, rounds>>
  /\ UNCHANGED <<io, conversations, processExit>>
  /\ ret' = NoReturn
  /\ UNCHANGED auxVars

\* toolUseNode: every call has its result; save the tool messages, return.
ToolUseReturns ==
  /\ Running
  /\ pc = "toolUse"
  /\ AllResultsCollected(results)
  /\ LET toolMessages == ToolMessages(PendingCalls(messages), results)
     IN /\ db' = SaveMessages(db, SessionConversationId(conversations),
                              toolMessages, clock)
        /\ ret' = SaveMessagesReturn(SessionConversationId(conversations),
                                     toolMessages)
        /\ messages' = MessagesReducer(messages, toolMessages)
        /\ produced' = produced \o toolMessages
  /\ clock' = clock + 1
  /\ results' = <<>>
  /\ pc' = NextNode("toolUse", shouldContinue)
  /\ UNCHANGED <<startIdx, nextId, turns, display>>
  /\ UNCHANGED mcpVars
  /\ UNCHANGED <<shouldContinue, invoked, dbBase, outcome, genInput,
                 genCalls, gatewayCalls, rounds>>
  /\ UNCHANGED <<io, conversations, processExit>>
  /\ UNCHANGED auxVars

\* graph.invoke: the next node is due beyond the recursion limit; the
\* runtime throws GraphRecursionError, graph.invoke and processUserInput
\* reject, main()'s loop displays the error and prompts again.
GraphRecursionError ==
  /\ Running
  /\ pc = "model"
  /\ ~WithinRecursionLimit("model", rounds)
  /\ pc' = LoopAfterError
  /\ display' = "An error occurred"
  /\ io' = Call(io.input, "error")
  /\ messages' = <<>>
  /\ shouldContinue' = TRUE
  /\ results' = <<>>
  /\ invoked' = <<>>
  /\ produced' = <<>>
  /\ dbBase' = 0
  /\ genInput' = <<>>
  /\ genCalls' = 0
  /\ gatewayCalls' = 0
  /\ rounds' = 0
  /\ UNCHANGED <<startIdx, db, clock, nextId, turns, outcome>>
  /\ UNCHANGED mcpVars
  /\ UNCHANGED <<conversations, processExit>>
  /\ ret' = NoReturn
  /\ UNCHANGED auxVars

\* graph.invoke resolves; processUserInput displays the final response.
GraphReturns ==
  /\ Running
  /\ pc = "end"
  /\ display' = Displayed(messages)
  /\ io' = Call(io.input, "continue")
  /\ pc' = "prompt"
  /\ NoTurn
  /\ UNCHANGED <<startIdx, db, clock, nextId, turns>>
  /\ UNCHANGED mcpVars
  /\ UNCHANGED <<conversations, processExit>>
  /\ ret' = NoReturn
  /\ UNCHANGED auxVars

\* SIGINT or SIGTERM arrives while main() runs.
SessionSignal == SignalArrives(Signals, MaxSessionSignals)

Next ==
  \/ TestDatabase
  \/ ConnectServer
  \/ GetAllToolsStep
  \/ StartLoop
  \/ ExitCommand
  \/ MainReturns
  \/ InfoCommand
  \/ StartTurn
  \/ InvokeGraph
  \/ UserInputNode
  \/ ModelFinalAnswer
  \/ ModelToolUse
  \/ ModelFails
  \/ ExecuteCall
  \/ ToolUseReturns
  \/ GraphReturns
  \/ TransportClosed
  \/ SessionSignal
  \/ CloseSettles
  \/ UncaughtException

Spec == Init /\ [][Next]_vars

\* ------------------------------------------------- later in a session
\* What one earlier turn left in the table: the user message, a request of
\* one call, its tool message and the answer, each saved by its node with
\* an insert of its own (times t .. t + 3).
EarlierTurn(table, conversationId, id, t) ==
  LET calls == <<[id |-> id, name |-> "list_files"]>>
      asked == SaveMessages(table, conversationId, <<HumanMessage("hi")>>, t)
      requested == SaveMessages(asked, conversationId,
                     <<ModelMessage(CapabilityRequest(calls))>>, t + 1)
      executed == SaveMessages(requested, conversationId,
                    ToolMessages(calls, <<"ok">>), t + 2)
  IN SaveMessages(executed, conversationId,
                  <<ModelMessage(FinalAnswer("Hello!"))>>, t + 3)

\* The table after n such turns of the conversation; their call ids,
\* MaxIds + 1 .. MaxIds + n, are none of those handed out later.
RECURSIVE EarlierTurns(_, _)
EarlierTurns(conversationId, n) ==
  IF n = 0 THEN <<>>
  ELSE EarlierTurn(EarlierTurns(conversationId, n - 1), conversationId,
                   MaxIds + n, 4 * n - 3)

\* The session after EarlierTurnCount turns: its server is connected and
\* has its tools listed, both conversations exist, no turn is running and
\* no service call has just returned.
SessionAfterEarlierTurns ==
  /\ startIdx = Len(ServerNames) + 1
  /\ servers = {ServerNames[1]}
  /\ connectedServers = {ServerNames[1]}
  /\ conversations =
       CreateConversation(CreateConversation(<<>>, "system-test"), "user")
  /\ db = EarlierTurns(SessionConversationId(conversations), EarlierTurnCount)
  /\ clock = 4 * EarlierTurnCount + 1
  /\ nextId = 1
  /\ messages = <<>>
  /\ shouldContinue = TRUE
  /\ results = <<>>
  /\ invoked = <<>>
  /\ produced = <<>>
  /\ dbBase = 0
  /\ outcome = NoOutcome
  /\ genInput = <<>>
  /\ genCalls = 0
  /\ gatewayCalls = 0
  /\ rounds = 0
  /\ toolExecutions = <<>>
  /\ stateCheckpoints = <<>>
  /\ ret = NoReturn
  /\ toolsCache = CacheTools(NoTools, ServerNames[1], <<"list_files">>)
  /\ inflight = {}
  /\ handling = {}
  /\ connections = [NoConnections EXCEPT ![ServerNames[1]] = 1]
  /\ transports = {Transport(ServerNames[1], 1)}
  /\ registryOrder = <<ServerNames[1]>>
  /\ processExit = "running"

\* That session at the prompt, the last answer on display.
LongSessionInit ==
  /\ SessionAfterEarlierTurns
  /\ pc = "prompt"
  /\ turns = 0
  /\ display = "Hello!"
  /\ io = Call("hi", "continue")

\* main() inside its interaction loop, with a generator that may also end a
\* turn without any text.
LoopNext ==
  \/ ExitCommand
  \/ MainReturns
  \/ InfoCommand
  \/ StartTurn
  \/ InvokeGraph
  \/ UserInputNode
  \/ ModelFinalAnswer
  \/ ModelEmptyAnswer
  \/ ModelToolUse
  \/ ModelFails
  \/ ExecuteCall
  \/ ToolUseReturns
  \/ GraphReturns
  \/ TransportClosed
  \/ SessionSignal
  \/ CloseSettles
  \/ UncaughtException

LongSessionSpec == LongSessionInit /\ [][LoopNext]_vars

\* ------------------------------------------- one turn, as long as it runs
\* That session when the user has sent 'hi': processUserInput has called
\* the read of the recent history.
RunTurnInit ==
  /\ SessionAfterEarlierTurns
  /\ pc = "loading"
  /\ turns = 1
  /\ display = "thinking"
  /\ io = Call("hi", "running")

\* modelNode, stop_reason tool_use, with a generator that asks for one call
\* per round, round after round; the ids of its calls come after those of
\* the earlier turns.
ModelKeepsRequesting ==
  ModelRequests(RecursionLimit, 1, MaxIds + EarlierTurnCount, RecursionLimit)

\* A step of the graph's run: the program position enables exactly one kind.
RunTurnStep ==
  \/ UserInputNode
  \/ ModelFinalAnswer
  \/ ModelKeepsRequesting
  \/ ModelFails
  \/ ExecuteCall
  \/ ToolUseReturns
  \/ GraphRecursionError
  \/ GraphReturns

\* The turn from graph.invoke to the prompt: no signal arrives, no transport
\* closes, nothing is thrown outside the graph.
RunTurnNext ==
  \/ InvokeGraph
  \/ RunTurnStep

\* Weak fairness of the graph's run: the store, the generator and the
\* gateway each answer (or fail) eventually, and the graph runtime then runs
\* the next node or stops the run.
RunTurnSpec == RunTurnInit /\ [][RunTurnNext]_vars /\ WF_vars(RunTurnStep)

\* ------------------------------------------------------------ properties
InTurn == pc \in {"model", "toolUse", "end"}

\* The persisted log as messages, in insertion order.
DbLog == [i \in 1..Len(db) |-> RowMessage(db[i])]

HasCalls(m) == m.type = "ai" /\ Len(m.tool_calls) > 0

\* log[i] carries calls and is followed directly by exactly one tool message
\* per call, in the order of the calls, and by no further tool message.
PairedAt(log, i) ==
  LET calls == log[i].tool_calls
      n == Len(calls)
  IN /\ i + n <= Len(log)
     /\ \A k \in 1..n :
          /\ log[i + k].type = "tool"
          /\ log[i + k].tool_call_id = calls[k].id
          /\ log[i + k].name = calls[k].name
     /\ i + n < Len(log) => log[i + n + 1].type # "tool"

\* Every tool message of the log answers a call of the nearest assistant
\* message before it.
Requested(log, j) ==
  \E i \in 1..(j - 1) :
    /\ HasCalls(log[i])
    /\ j - i <= Len(log[i].tool_calls)
    /\ log[i].tool_calls[j - i].id = log[j].tool_call_id

\* The calls of log[i] are still being executed (or the process ended
\* while they were): nothing follows the request yet.
StillPending(log, i) == i = Len(log) /\ pc = "toolUse"

Pairing(log) ==
  /\ \A i \in 1..Len(log) :
       HasCalls(log[i]) => PairedAt(log, i) \/ StillPending(log, i)
  /\ \A j \in 1..Len(log) : log[j].type = "tool" => Requested(log, j)

\* C1: in the persisted log and in the messages of the running turn, every
\* assistant message that carries calls is followed directly by exactly one
\* tool message per call, matched by call id in the order of the calls, before
\* any other message; only the request whose calls are being executed has
\* nothing after it.
C1_CallsPairedWithResults == Pairing(DbLog) /\ Pairing(produced)

\* C1 witness: a persisted request of two calls, its two results, and the
\* next assistant message after them.
C1_Witness ==
  \E i \in 1..Len(db) :
    /\ Len(DbLog[i].tool_calls) = 2
    /\ i + 3 <= Len(db)
    /\ PairedAt(DbLog, i)
    /\ DbLog[i + 3].type = "ai"

\* The last n messages of a sequence.
LastN(msgs, n) == SubSeq(msgs, Len(msgs) - n + 1, Len(msgs))

\* C2: a generation step that returns a request of N >= 1 calls appends one
\* assistant message carrying the N descriptors; the tool phase appends
\* nothing until it returns, and then appends N tool messages whose call ids
\* are those of the request, in the order requested: 1 + N messages a round.
C2_RoundProducesOnePlusN ==
  [][/\ (pc = "model" /\ outcome'.kind = "tool_use" /\ genCalls' = genCalls + 1)
          => /\ Len(outcome'.calls) >= 1
             /\ messages' = messages \o <<AIMessage("", outcome'.calls)>>
     /\ (pc = "toolUse" /\ pc' = "toolUse") => messages' = messages
     /\ (pc = "toolUse" /\ pc' = "model")
          => LET n == Len(outcome.calls)
             IN /\ Len(messages') = Len(messages) + n
                /\ SubSeq(messages', 1, Len(messages)) = messages
                /\ messages[Len(messages)] = AIMessage("", outcome.calls)
                /\ \A k \in 1..n :
                     /\ messages'[Len(messages) + k].type = "tool"
                     /\ messages'[Len(messages) + k].tool_call_id
                          = outcome.calls[k].id]_vars

\* C2 witness: a round of two calls has returned its 1 + 2 messages.
C2_Witness ==
  /\ pc = "model"
  /\ Len(outcome.calls) = 2
  /\ LastN(messages, 3)[1] = AIMessage("", outcome.calls)
  /\ LastN(messages, 3)[2].tool_call_id = outcome.calls[1].id
  /\ LastN(messages, 3)[3].tool_call_id = outcome.calls[2].id

\* C3: when the first generation call of a turn returns a final answer, the
\* turn is in DONE after that one call, has produced exactly one message (an
\* assistant message with the answer text and no calls) and has made no
\* gateway call.
C3_FinalAnswerFirst ==
  (genCalls = 1 /\ outcome.kind = "final")
    => /\ pc = "end"
       /\ messages = invoked \o <<AIMessage(outcome.text, <<>>)>>
       /\ produced = <<AIMessage(outcome.text, <<>>)>>
       /\ gatewayCalls = 0
       /\ rounds = 0

\* C3 witness: the generator answered "Hello!" at once to a turn whose
\* history was loaded from an earlier turn.
C3_Witness ==
  /\ pc = "end"
  /\ genCalls = 1
  /\ outcome = FinalAnswer("Hello!")
  /\ Len(invoked) > 1

\* The content a failed call's tool message carries.
FailureContent == ToolContent("error")

\* C4: a call whose server has no client ends as a failed result, a failed
\* call never ends the tool phase by itself, and when the phase returns it
\* goes back to GENERATING with one tool message per call, the failed calls'
\* messages carrying the failure and the others the result.
C4_ToolFailureBecomesMessage ==
  [][/\ (pc = "toolUse" /\ pc' = "toolUse")
          => \A i \in 1..Len(results) :
               /\ results[i] # "pending" => results'[i] = results[i]
               /\ (/\ results'[i] # results[i]
                   /\ ServerOf(outcome.calls[i].name) \notin servers)
                    => results'[i] = "error"
     /\ (pc = "toolUse" /\ pc' # "toolUse")
          => /\ pc' = "model"
             /\ \A i \in 1..Len(results) :
                  /\ results[i] \in {"ok", "error"}
                  /\ messages'[Len(messages) + i].tool_call_id
                       = outcome.calls[i].id
                  /\ (messages'[Len(messages) + i].content = FailureContent)
                       <=> results[i] = "error"]_vars

\* C4 witness: the filesystem server never connected, the first of two calls
\* has failed, and the second is still to be executed.
C4_Witness ==
  /\ pc = "toolUse"
  /\ servers = {}
  /\ Len(results) = 2
  /\ results[1] = "error"
  /\ results[2] = "pending"

\* C5: a generator failure ends the turn at once: the step persists nothing
\* and changes no persisted message, the error is displayed, the loop is back
\* at the prompt, and the turn makes no further call (its next generator or
\* gateway call belongs to a turn started by a new input).
C5_GeneratorFailureAbortsTurn ==
  [][(pc = "model" /\ outcome'.kind = "fail")
       => /\ db' = db
          /\ clock' = clock
          /\ nextId' = nextId
          /\ pc' = "prompt"
          /\ display' = "An error occurred"
          /\ genCalls' = 0
          /\ gatewayCalls' = 0
          /\ messages' = <<>>]_vars

\* C5 witness: the generator failed after a tool round; the round's request
\* and results are the last rows of the log.
C5_Witness ==
  /\ pc = "prompt"
  /\ outcome.kind = "fail"
  /\ display = "An error occurred"
  /\ Len(db) >= 3
  /\ DbLog[Len(db)].type = "tool"

\* C6: at every step boundary of a running turn the rows inserted since the
\* graph was invoked are exactly the turn's user message followed by the
\* messages its nodes have returned, in order; before the user-input node
\* has run nothing of the turn is persisted.
C6_PersistedBeforeNextStep ==
  /\ InTurn =>
       /\ dbBase < Len(db)
       /\ [i \in 1..(Len(db) - dbBase) |-> DbLog[dbBase + i]]
            = <<invoked[Len(invoked)]>> \o produced
  /\ pc = "userInput" => Len(db) = dbBase

\* C6 witness: a tool phase is running; the request is persisted, the
\* results of its calls are not yet.
C6_Witness ==
  /\ pc = "toolUse"
  /\ Len(results) = 2
  /\ results[1] # "pending"
  /\ DbLog[Len(db)] = AIMessage("", outcome.calls)

\* C7: a step makes a generator call or a gateway call, never both; gateway
\* calls happen only in the tool phase and generator calls only in the
\* generation phase, with no result pending; and the tool phase hands over to
\* generation only when every call of the request has its result.
C7_NoOverlapAllResultsFirst ==
  [][/\ (InTurn /\ InTurn' /\ genCalls' # genCalls)
          => /\ pc = "model"
             /\ results = <<>>
             /\ gatewayCalls' = gatewayCalls
     /\ (InTurn /\ InTurn' /\ gatewayCalls' # gatewayCalls)
          => /\ pc = "toolUse"
             /\ pc' = "toolUse"
             /\ genCalls' = genCalls
     /\ (pc = "toolUse" /\ pc' = "model")
          => /\ Len(results) = Len(outcome.calls)
             /\ \A i \in 1..Len(results) : results[i] # "pending"
             /\ gatewayCalls' = gatewayCalls]_vars

\* C7 witness: the second call of a request finished before the first.
C7_Witness ==
  /\ pc = "toolUse"
  /\ Len(results) = 2
  /\ results[1] = "pending"
  /\ results[2] = "ok"

\* C8: the turn is in DONE only after a generation call returned a final
\* answer; a final answer always leads to DONE and a request always to the
\* tool phase, however many rounds went before; while the process runs, a
\* turn that is generating or executing tools is left only for DONE or
\* because the generator failed, never because of a cap on its rounds; and
\* under fairness such a turn reaches DONE unless the generator fails or the
\* process ends.
C8_RunsUntilDone ==
  /\ [](pc = "end" => outcome.kind = "final")
  /\ [][(pc = "model" /\ genCalls' = genCalls + 1)
          => /\ outcome'.kind = "final" => pc' = "end"
             /\ outcome'.kind = "tool_use" => pc' = "toolUse"]_vars
  /\ [][(/\ pc \in {"model", "toolUse"}
         /\ pc' \notin {"model", "toolUse", "end"}
         /\ processExit' = "running")
          => outcome'.kind = "fail"]_vars
  /\ (pc \in {"model", "toolUse"})
        ~> (pc = "end" \/ outcome.kind = "fail" \/ processExit # "running")

\* The orchestration state of a program position.
OrchOf(p) ==
  IF p = "model" THEN "GENERATING"
  ELSE IF p = "toolUse" THEN "AWAITING_TOOLS"
  ELSE IF p = "end" THEN "DONE"
  ELSE "NONE"

\* C9: a turn enters the state machine in GENERATING; between orchestration
\* states the only moves are GENERATING -> DONE, GENERATING -> AWAITING_TOOLS
\* and AWAITING_TOOLS -> GENERATING; a turn leaves the machine from DONE (it
\* returns) or from GENERATING (the generator failed), and a process that
\* ends leaves the turn in the state it was in; in DONE nothing is
\* persisted and no generator or gateway call is made.
C9_StateMachine ==
  [][/\ (OrchOf(pc) = "NONE" /\ OrchOf(pc') # "NONE")
          => /\ OrchOf(pc') = "GENERATING"
             /\ genCalls' = 0
     /\ (OrchOf(pc) # "NONE" /\ OrchOf(pc') # "NONE" /\ pc' # pc)
          => <<OrchOf(pc), OrchOf(pc')>> \in
               {<<"GENERATING", "DONE">>,
                <<"GENERATING", "AWAITING_TOOLS">>,
                <<"AWAITING_TOOLS", "GENERATING">>}
     /\ (OrchOf(pc) # "NONE" /\ OrchOf(pc') = "NONE")
          => \/ OrchOf(pc) = "DONE"
             \/ OrchOf(pc) = "GENERATING" /\ outcome'.kind = "fail"
     /\ OrchOf(pc) = "DONE"
          => /\ db' = db
             /\ clock' = clock
             /\ nextId' = nextId
             /\ pc' \in {"end", "prompt"}]_vars

\* C9 witness: DONE reached through GENERATING -> AWAITING_TOOLS ->
\* GENERATING -> DONE.
C9_Witness ==
  /\ OrchOf(pc) = "DONE"
  /\ rounds = 1
  /\ genCalls = 2

\* Index of the last assistant message of a sequence (0 when there is none).
RECURSIVE LastAI(_)
LastAI(msgs) ==
  IF Len(msgs) = 0 THEN 0
  ELSE IF msgs[Len(msgs)].type = "ai" THEN Len(msgs)
  ELSE LastAI(SubSeq(msgs, 1, Len(msgs) - 1))

\* C10: the argument of the latest generation call is the history the graph
\* was invoked with followed by every message the turn had produced before
\* that call, in order.
C10_GeneratorSeesExtendedHistory ==
  (InTurn /\ genCalls >= 1)
    => /\ LastAI(produced) >= 1
       /\ genInput = invoked \o SubSeq(produced, 1, LastAI(produced) - 1)

\* C10 witness: the second generation call of a turn got the loaded history,
\* the user message, the request of two calls and both results.
C10_Witness ==
  /\ InTurn
  /\ genCalls = 2
  /\ Len(invoked) > 1
  /\ Len(genInput) = Len(invoked) + 3
  /\ genInput[Len(invoked) + 1].type = "ai"
  /\ genInput[Len(genInput)].type = "tool"
  /\ genInput[Len(genInput)].content = FailureContent

\* ------------------------------------------------- claims on the store
\* The latest call was a getConversationMessages whose query answered.
Loaded == ret.op = "getConversationMessages" /\ ~ret.failed

\* The rows of the table that belong to the conversation of the latest call.
OwnRows == {k \in 1..Len(db) : db[k].conversationId = ret.conversationId}

\* C11: getConversationMessages with limit L on a conversation of n rows
\* returns min(L, n) messages; they are distinct rows of that conversation
\* and of no other; no row left out was created later than a row returned;
\* the creation times never decrease along the result; each message is the
\* one its row maps to.
C11_LoadRecentWindow ==
  Loaded =>
    /\ Len(ret.rows) = Min(ret.limit, Cardinality(OwnRows))
    /\ Len(ret.value) = Len(ret.rows)
    /\ \A i \in 1..Len(ret.rows) :
         /\ ret.rows[i] \in OwnRows
         /\ ret.value[i] = RowMessage(db[ret.rows[i]])
         /\ \A j \in 1..Len(ret.rows) :
              i < j => /\ ret.rows[i] # ret.rows[j]
                       /\ db[ret.rows[i]].createdAt <= db[ret.rows[j]].createdAt
         /\ \A k \in OwnRows \ Range(ret.rows) :
              db[k].createdAt <= db[ret.rows[i]].createdAt

\* C11 witness: a load with limit 1 from a conversation of two rows created
\* at different times, while the newest row of the table belongs to another
\* conversation: the older own row is left out, the other conversation's
\* row is not returned.
C11_Witness ==
  /\ Loaded
  /\ ret.limit = 1
  /\ Cardinality(OwnRows) = 2
  /\ Len(ret.rows) = 1
  /\ \E k \in OwnRows : db[k].createdAt < db[ret.rows[1]].createdAt
  /\ \E k \in 1..Len(db) :
       /\ k \notin OwnRows
       /\ db[k].createdAt > db[ret.rows[1]].createdAt

\* The latest n rows of the conversation of the latest call, in the order
\* they were inserted.
LatestOwnRows(n) ==
  LET m == Min(n, Cardinality(OwnRows))
  IN [i \in 1..m |->
        CHOOSE k \in OwnRows :
          Cardinality({j \in OwnRows : j >= k}) = m + 1 - i]

\* C12: a getConversationMessages that follows saves returns the rows in the
\* order they were saved (later saves after earlier ones, a batch's messages
\* in the batch's order), and a repeated call has only that one sequence to
\* return.
C12_ReplayKeepsOrder ==
  Loaded =>
    /\ ret.rows = LatestOwnRows(ret.limit)
    /\ Cardinality(GetConversationMessages(db, ret.conversationId, ret.limit)) = 1

\* The latest call was a saveMessages that inserted its batch.
Saved == ret.op = "saveMessages" /\ ~ret.failed

\* C14: after saveMessages(c, batch), getConversationMessages(c, Len(batch))
\* returns the messages of the batch: each message loaded equals a message
\* saved, in type (role), content, call descriptors, call id and name.
C14_RoundTrip ==
  Saved =>
    \A value \in GetConversationMessages(db, ret.conversationId, Len(ret.batch)) :
      /\ Len(value) = Len(ret.batch)
      /\ \A i \in 1..Len(value) : \E j \in 1..Len(ret.batch) : value[i] = ret.batch[j]

\* C15: no operation of the store removes, changes or moves a Message row:
\* after every step the table begins with the rows it held before, each with
\* the same role, content, metadata and conversation.
C15_AppendOnly ==
  [][/\ Len(db') >= Len(db)
     /\ \A i \in 1..Len(db) : db'[i] = db[i]]_vars

\* C15 witness: rows of two inserts in the table, a later write of
\* saveToolExecution or updateState, and a getConversation as the latest call.
C15_Witness ==
  /\ Len(db) >= 2
  /\ db[1].createdAt < db[Len(db)].createdAt
  /\ Written > 0
  /\ ret.op = "getConversation"
  /\ ~ret.failed

\* ------------------------------------------- claims on the interaction loop
\* The command lines among UserInputs, and those that spell /exit.
CommandInputs == {"/exit", "/EXIT", "/help", "/Tools"}

ExitInputs == {"/exit", "/EXIT"}

\* C13: when the line read at the prompt is /exit, /help or /tools in any
\* letter case, no graph node runs and the generator is not called, no store
\* call is made (the history is not loaded), the message table is unchanged;
\* for /exit processUserInput returns 'exit' and the loop ends, for /help and
\* /tools it returns 'continue' and the program is at the prompt again.
C13_CommandsShortCircuit ==
  [][(pc = "prompt" /\ io' # io /\ io'.input \in CommandInputs) =>
       /\ db' = db
       /\ ret' = NoReturn
       /\ turns' = turns
       /\ UNCHANGED turnVars
       /\ pc' \in {"prompt", "cleanup"}
       /\ io'.input \in ExitInputs =>
            pc' = "cleanup" /\ io'.result = "exit"
       /\ io'.input \notin ExitInputs =>
            pc' = "prompt" /\ io'.result = "continue"]_vars

\* C13 witness: /Tools typed after a turn that persisted messages; the
\* program is at the prompt again with the command's output displayed.
C13_Witness ==
  /\ pc = "prompt"
  /\ io = Call("/Tools", "continue")
  /\ display = "/tools"
  /\ Len(db) > 0
  /\ turns > 0

\* The positions of main() inside its interaction loop.
LoopPositions == {"prompt", "loading", "userInput", "model", "toolUse", "end"}

\* C19: when processing an input throws, the error is displayed and the
\* program is at the prompt again, with the conversations and the message
\* table as they were; main() leaves the loop only on a step from the prompt
\* in which processUserInput returned 'exit' for /exit.
C19_LoopSurvivesErrors ==
  [][/\ (io' # io /\ io'.result = "error") =>
          /\ pc' = "prompt"
          /\ display' = "An error occurred"
          /\ db' = db
          /\ conversations' = conversations
     /\ (pc \in LoopPositions /\ pc' \notin LoopPositions) =>
          /\ pc = "prompt"
          /\ pc' = "cleanup"
          /\ io'.result = "exit"
          /\ io'.input \in ExitInputs]_vars

\* C19 witness: the first turn failed in the generator after its user message
\* was saved; the next input was processed in the same conversation and was
\* answered.
C19_Witness ==
  /\ pc = "prompt"
  /\ io = Call("hi", "continue")
  /\ Len(db) = 3
  /\ db[1].role = "USER"
  /\ db[2].role = "USER"
  /\ db[3].role = "ASSISTANT"
  /\ \A i \in 1..3 : db[i].conversationId = SessionConversationId(conversations)

\* C20: when the query of getConversationMessages fails in processUserInput,
\* the call returns the empty sequence instead of throwing: the graph is
\* invoked with the new user message alone and the message table is
\* unchanged.
C20_ReadFailureGivesEmptyHistory ==
  [][(pc = "loading" /\ ret'.op = "getConversationMessages" /\ ret'.failed) =>
       /\ ret'.value = <<>>
       /\ io'.result = "running"
       /\ pc' = "userInput"
       /\ invoked' = <<HumanMessage(io'.input)>>
       /\ messages' = <<HumanMessage(io'.input)>>
       /\ db' = db]_vars

\* C20 witness: the second turn starts with a failed read although the
\* table holds the first turn's messages.
C20_Witness ==
  /\ pc = "userInput"
  /\ ret.op = "getConversationMessages"
  /\ ret.failed
  /\ Len(db) >= 2
  /\ invoked = <<HumanMessage("hi")>>

\* ------------------------------------------------- claims on MCPService
\* The disconnectServer calls of a run of a handler that have not finished.
AttemptsOf(calls, run) ==
  {call \in calls : call.op = "disconnectServer" /\ call.by = run}

\* C16: when a signal arrives its handler starts a disconnect for exactly
\* the servers connected at that moment; the process exits with code 0 only
\* when every disconnect of some handler has finished (close resolved, close
\* rejected, or timed out), and no handler makes it exit with another code;
\* and once a signal has arrived the process does end, whatever the closes
\* do (with code 0, unless an uncaught exception ends it before).
C16_GracefulShutdown ==
  /\ [][/\ \A run \in handling' \ handling :
            {call.name : call \in AttemptsOf(inflight', run)} = connectedServers
        /\ (processExit = "running" /\ processExit' = "exit(0)") =>
             \E run \in handling' : AttemptsOf(inflight', run) = {}
        /\ (processExit = "running" /\ processExit' = "exit(1)") =>
             UNCHANGED <<servers, connectedServers, inflight, handling>>]_vars
  /\ (handling # {}) ~> (processExit # "running")

\* C16 witness: the process has exited after a handler's last disconnect
\* ended by the timeout, and the registry is empty.
C16_Witness ==
  /\ processExit = "exit(0)"
  /\ ret.op = "disconnectServer"
  /\ ret.by.sig = "SIGTERM"
  /\ ret.outcome = "timeout"
  /\ servers = {}

\* The calls of the given kind that return in this step.
Returning(op) == {call \in inflight \ inflight' : call.op = op}

\* A call of the given kind on an unregistered name returns in this step.
ReturnsUnregistered(op) ==
  /\ ret' # ret
  /\ ret'.op = op
  /\ ret'.outcome = "unregistered"

\* C17: a disconnectServer call that waited for its close returns without
\* throwing, whether the close resolved, rejected or timed out, and its name
\* is then in neither the registry nor the connected set; only a registered
\* name makes the call wait; a call on an unregistered name returns without
\* throwing and leaves the registry, the connected set and the tools as
\* they were.
C17_DisconnectServerTotal ==
  [][/\ \A call \in Returning("disconnectServer") :
          /\ ret'.op = "disconnectServer"
          /\ ret'.name = call.name
          /\ ret'.outcome \in {"resolved", "rejected", "timeout"}
          /\ ~ret'.threw
          /\ call.name \notin servers'
          /\ call.name \notin connectedServers'
     /\ \A call \in inflight' \ inflight :
          call.op = "disconnectServer" => call.name \in servers
     /\ ReturnsUnregistered("disconnectServer") =>
          /\ ret'.name \notin servers
          /\ ~ret'.threw
          /\ UNCHANGED <<servers, connectedServers, toolsCache>>]_vars

\* C17 witness: main() has disconnected filesystem, its close rejected, and
\* github is still registered and connected.
C17_Witness ==
  /\ ret.op = "disconnectServer"
  /\ ret.by = MainCaller
  /\ ret.name = "filesystem"
  /\ ret.outcome = "rejected"
  /\ servers = {"github"}
  /\ connectedServers = {"github"}

\* C18: a listTools call returns without throwing; for an unregistered name
\* and for a client that rejects it returns [] and every tools field stays
\* as it was; when the client answers it returns the answered list, that
\* list becomes the tools field of the server (if it is still registered)
\* and the tools fields of the other servers stay as they were.
C18_ListToolsTotal ==
  [][/\ \A call \in Returning("listTools") :
          /\ ret'.op = "listTools"
          /\ ret'.name = call.name
          /\ ~ret'.threw
          /\ ret'.outcome \in {"resolved", "rejected"}
          /\ ret'.outcome = "rejected" =>
               ret'.value = <<>> /\ toolsCache' = toolsCache
          /\ ret'.outcome = "resolved" =>
               /\ ret'.value \in ToolLists
               /\ call.name \in servers =>
                    toolsCache'[call.name] = {ret'.value}
               /\ \A other \in KnownServers \ {call.name} :
                    toolsCache'[other] = toolsCache[other]
     /\ ReturnsUnregistered("listTools") =>
          /\ ret'.name \notin servers
          /\ ret'.value = <<>>
          /\ ~ret'.threw
          /\ toolsCache' = toolsCache]_vars

\* C18 witness: listTools has returned a server's one tool and cached it,
\* while the other server keeps the empty list cached for it earlier.
C18_Witness ==
  /\ ret.op = "listTools"
  /\ ret.outcome = "resolved"
  /\ ret.value = <<"list_files">>
  /\ toolsCache[ret.name] = {<<"list_files">>}
  /\ \E other \in KnownServers \ {ret.name} : toolsCache[other] = {<<>>}

\* ----------------------------------- claims on the registry of MCPService
\* C21: whatever calls and transport closes have happened, every name for
\* which isConnected is true is a key of the registry and its server holds a
\* client.
C21_ConnectedImpliesRegistered ==
  \A name \in KnownServers :
    IsConnected(connectedServers, name) => name \in servers

\* C21 witness: both servers are connected and registered, one of them for
\* the second time: the transport of its first connection has closed, the
\* one of its second connection is open.
C21_Witness ==
  /\ connectedServers = KnownServers
  /\ servers = KnownServers
  /\ \E name \in KnownServers :
       /\ connections[name] = 2
       /\ Transport(name, 1) \notin transports
       /\ Transport(name, 2) \in transports
       /\ registryOrder[2] = name

\* The transport of the connection the registry holds for the name: the one
\* of the latest connectServer call that succeeded.
LiveTransport(name) == Transport(name, connections[name])

\* A disconnectServer call for the name finishes in this step.
DisconnectReturns(name) ==
  \E call \in inflight \ inflight' :
    call.op = "disconnectServer" /\ call.name = name

\* C22: a name for which isConnected is true stays so in every step, except
\* a step in which a disconnectServer call for that name finishes or the
\* transport of the name's latest connection closes; the close of the
\* transport of an earlier connection of the name leaves it connected.
C22_ConnectedUntilOwnClose ==
  [][\A name \in KnownServers :
       (IsConnected(connectedServers, name)
          /\ ~IsConnected(connectedServers', name)) =>
         \/ DisconnectReturns(name)
         \/ LiveTransport(name) \in transports \ transports']_vars

\* getServerForTool returns in this step.
RouteReturns == ret' # ret /\ ret'.op = "getServerForTool"

\* The callTool calls handed to a client in this step.
Dispatched == {call \in inflight' \ inflight : call.op = "callTool"}

\* C23: getServerForTool returns null or a server for which isConnected is
\* true; callTool hands a call to a client only for a server for which
\* isConnected is true; and a callTool that throws the not-connected error
\* leaves the registry, the connected set, the tools and the calls in
\* progress as they were.
C23_RoutingUsesConnectedServers ==
  [][/\ RouteReturns =>
          \A i \in 1..Len(ret'.value) :
            IsConnected(connectedServers, ret'.value[i])
     /\ \A call \in Dispatched : IsConnected(connectedServers, call.name)
     /\ ReturnsUnregistered("callTool") =>
          /\ ret'.threw
          /\ UNCHANGED <<servers, connectedServers, toolsCache, inflight>>]_vars

\* ------------------------------------------- claims on the turn's window
\* The tool message at place j of the window answers a call of an assistant
\* message before it in the window.
AnswersEarlierCall(window, j) ==
  \E i \in 1..(j - 1) :
    /\ window[i].type = "ai"
    /\ \E k \in 1..Len(window[i].tool_calls) :
         window[i].tool_calls[k].id = window[j].tool_call_id

\* Every call of the assistant message at place i of the window has its tool
\* message after it in the window.
AllCallsAnswered(window, i) ==
  \A k \in 1..Len(window[i].tool_calls) :
    \E j \in (i + 1)..Len(window) :
      /\ window[j].type = "tool"
      /\ window[j].tool_call_id = window[i].tool_calls[k].id

\* C24: in the messages a turn's graph run starts from (the last 10
\* persisted messages and the new user message), every tool message comes
\* after the assistant message that carries its call, and every assistant
\* message with calls is followed by the tool messages of all its calls.
C24_WindowKeepsPairs ==
  /\ \A j \in 1..Len(invoked) :
       invoked[j].type = "tool" => AnswersEarlierCall(invoked, j)
  /\ \A i \in 1..Len(invoked) :
       HasCalls(invoked[i]) => AllCallsAnswered(invoked, i)

\* processUserInput returns from a graph run in this step.
TurnDisplayed == pc = "end" /\ pc' = "prompt"

\* C25: what a turn displays is the text of the last assistant message with
\* text among the messages the turn produced, and the placeholder when the
\* turn produced no assistant message with text; a text loaded from the
\* history is not displayed.
C25_DisplaysThisTurnsAnswer ==
  [][TurnDisplayed =>
       display' = IF FinalResponse(produced) # "" THEN FinalResponse(produced)
                  ELSE Placeholder]_vars

\* -------------------------------------------------- claims on updateState
\* The updateState calls whose second statement is answered in this step.
UpdateSettling == {call \in inflight \ inflight' : call.op = "updateState"}

\* C26: when updateState has returned or thrown, every conversation that
\* has a checkpoint is in the state of its latest checkpoint; and when it
\* has thrown, the conversation is in the state it had when the call was
\* made and the checkpoints are as they were.
C26_UpdateStateAllOrNothing ==
  [][\A call \in UpdateSettling :
       /\ \A i \in 1..Len(conversations') :
            LET conv == conversations'[i]
                own == SelectSeq(stateCheckpoints',
                                 LAMBDA c : c.conversationId = conv.id)
            IN Len(own) > 0 => conv.state = own[Len(own)].state
       /\ ret'.failed =>
            /\ StateOf(conversations', call.conversationId) = call.was
            /\ stateCheckpoints' = stateCheckpoints]_vars
====
